---- MODULE Spec2Model ----
(***************************************************************************)
(* The ADD_ONION command of the Tor control-port client                    *)
(* (comms/src/tor/commands/add_onion.rs): serialisation of the request     *)
(* line (to_command_string) and parsing of the response lines              *)
(* (parse_responses).  Text is modelled by TLA+ strings, on which TLC      *)
(* evaluates Len, \o and SubSeq character by character.                    *)
(***************************************************************************)
EXTENDS Integers, Sequences, FiniteSets, TLC

VARIABLES cmd, responses, line, result

vars == <<cmd, responses, line, result>>

(***************************************************************************)
(* Bounds of the model.                                                    *)
(***************************************************************************)
MaxFlags == 2
MaxDataLines == 3

(***************************************************************************)
(* Option<T> and Result<T, E>.                                             *)
(***************************************************************************)
None == <<>>

Some(x) == <<x>>

Ok(v) == [ok |-> TRUE, val |-> v]

Err(e) == [ok |-> FALSE, err |-> e]

(***************************************************************************)
(* Text helpers: the character at a position, the first position of a      *)
(* character (0 when absent), the text before and after a position.        *)
(***************************************************************************)
CharAt(s, i) == SubSeq(s, i, i)

RECURSIVE FindFrom(_, _, _)
FindFrom(s, ch, i) ==
    IF i > Len(s) THEN 0
    ELSE IF CharAt(s, i) = ch THEN i
    ELSE FindFrom(s, ch, i + 1)

Find(s, ch) == FindFrom(s, ch, 1)

Before(s, i) == SubSeq(s, 1, i - 1)

After(s, i) == SubSeq(s, i + 1, Len(s))

RECURSIVE Join(_, _)
Join(strs, sep) ==
    IF Len(strs) = 0 THEN ""
    ELSE IF Len(strs) = 1 THEN strs[1]
    ELSE strs[1] \o sep \o Join(Tail(strs), sep)

(***************************************************************************)
(* The request: key type, key blob, flags, port mapping, stream limit.     *)
(***************************************************************************)
KeyType == {"New", "Rsa1024", "Ed25519V3"}

KeyType_as_tor_repr(kt) ==
    CASE kt = "New" -> "NEW"
      [] kt = "Rsa1024" -> "RSA1024"
      [] kt = "Ed25519V3" -> "ED25519-V3"

KeyBlob == {[String |-> s] : s \in {"this-is-a-key", "k", "k:2", "k Flags=Detach", "k NumStreams=1"}}

KeyBlob_as_tor_repr(kb) == kb.String

AddOnionFlag == {"DiscardPK", "Detach", "BasicAuth", "NonAnonymous", "MaxStreamsCloseCircuit"}

AddOnionFlag_to_string(f) ==
    CASE f = "DiscardPK" -> "DiscardPK"
      [] f = "Detach" -> "Detach"
      [] f = "BasicAuth" -> "BasicAuth"
      [] f = "NonAnonymous" -> "NonAnonymous"
      [] f = "MaxStreamsCloseCircuit" -> "MaxStreamsCloseCircuit"

SocketAddr == {[v6 |-> FALSE, ip |-> "127.0.0.1", port |-> 8080],
               [v6 |-> TRUE, ip |-> "::1", port |-> 443]}

SocketAddr_fmt(a) ==
    IF a.v6 THEN "[" \o a.ip \o "]:" \o ToString(a.port)
    ELSE a.ip \o ":" \o ToString(a.port)

VirtPort == {80, 9090}

NonZeroU16 == {1, 65535}

FlagLists == UNION {[1..n -> AddOnionFlag] : n \in 0..MaxFlags}

AddOnion ==
    [key_type : KeyType,
     key_blob : KeyBlob,
     flags : FlagLists,
     port : VirtPort \X ({None} \cup {Some(a) : a \in SocketAddr}),
     num_streams : {None} \cup {Some(n) : n \in NonZeroU16}]

AddOnion_new(key_type, key_blob, flags, port, num_streams) ==
    [key_type |-> key_type, key_blob |-> key_blob, flags |-> flags,
     port |-> port, num_streams |-> num_streams]

to_command_string_streams_first(self) ==
    LET s3 == "ADD_ONION " \o KeyType_as_tor_repr(self.key_type) \o ":" \o
              KeyBlob_as_tor_repr(self.key_blob)
        s4 == IF self.num_streams # None
              THEN s3 \o " NumStreams=" \o ToString(self.num_streams[1])
              ELSE s3
        s5 == IF Len(self.flags) > 0
              THEN s4 \o " Flags=" \o Join([i \in 1..Len(self.flags) |->
                                        AddOnionFlag_to_string(self.flags[i])], ",")
              ELSE s4
        s6 == s5 \o " Port=" \o ToString(self.port[1]) \o
              (IF self.port[2] # None THEN "," \o SocketAddr_fmt(self.port[2][1]) ELSE "")
    IN Ok(s6)

to_command_string(self) ==
    LET s0 == "ADD_ONION "
        s1 == s0 \o KeyType_as_tor_repr(self.key_type)
        s2 == s1 \o ":"
        s3 == s2 \o KeyBlob_as_tor_repr(self.key_blob)
        s4 == IF Len(self.flags) > 0
              THEN LET flags == Join([i \in 1..Len(self.flags) |->
                                        AddOnionFlag_to_string(self.flags[i])], ",")
                   IN s3 \o " Flags=" \o flags
              ELSE s3
        s5 == IF self.num_streams # None
              THEN s4 \o " NumStreams=" \o ToString(self.num_streams[1])
              ELSE s4
        s6 == s5 \o " Port=" \o ToString(self.port[1]) \o
              (IF self.port[2] # None THEN "," \o SocketAddr_fmt(self.port[2][1]) ELSE "")
    IN Ok(s6)

DefaultCommand ==
    AddOnion_new("New", [String |-> "this-is-a-key"], <<>>, <<9090, None>>, None)

(***************************************************************************)
(* Serialisation: a command is built from any field values and serialised. *)
(***************************************************************************)
InitCommand ==
    /\ \E kt \in KeyType, kb \in KeyBlob, fl \in FlagLists, vp \in VirtPort,
          ad \in {None} \cup {Some(a) : a \in SocketAddr},
          ns \in {None} \cup {Some(n) : n \in NonZeroU16} :
            cmd = AddOnion_new(kt, kb, fl, <<vp, ad>>, ns)
    /\ responses = <<>>
    /\ line = None
    /\ result = None

ToCommandString ==
    /\ line = None
    /\ line' = Some(to_command_string(cmd))
    /\ UNCHANGED <<cmd, responses, result>>

NextCommand == ToCommandString

SpecCommand == InitCommand /\ [][NextCommand]_vars

(***************************************************************************)
(* The response: lines of a status code and a text, the last one being the *)
(* status line.                                                            *)
(***************************************************************************)
ResponseLine_new(code, value) == [code |-> code, value |-> value]

ResponseLine_err(r) == IF r.code = 250 THEN None ELSE Some(r.value)

ParseError(msg) == [ParseError |-> msg]

key_value(s) ==
    LET eq == Find(s, "=")
    IN IF Len(s) = 0 \/ eq = 1 THEN Err(ParseError("Failed to parse key/value"))
       ELSE IF eq = 0 THEN Ok(<<s, "">>)
       ELSE Ok(<<Before(s, eq), After(s, eq)>>)

RECURSIVE str_split(_, _)
str_split(s, ch) ==
    LET i == Find(s, ch)
    IN IF i = 0 THEN <<s>>
       ELSE <<Before(s, i)>> \o str_split(After(s, i), ch)

UnexpectedEof == [kind |-> "UnexpectedEof"]

TorCommandFailed(msg) == [kind |-> "TorCommandFailed", msg |-> msg]

AddOnionNoServiceId == [kind |-> "AddOnionNoServiceId"]

ParseFailedResponse(e) == [kind |-> "ParseFailedResponse", msg |-> e.ParseError]

Ed25519V3(value) == [alg |-> "Ed25519V3", value |-> value]

Rsa1024(value) == [alg |-> "Rsa1024", value |-> value]

AddOnionResponse(service_id, private_key) ==
    [service_id |-> service_id, private_key |-> private_key]

parse_private_key_passthrough(value) ==
    LET split == str_split(value, ":")
    IN IF Len(split) < 1 THEN Err(ParseFailedResponse(ParseError("PrivateKey field was empty")))
       ELSE IF Len(split) < 2 THEN Err(ParseFailedResponse(ParseError("Failed to parse private key")))
       ELSE LET key == split[1]
                v == split[2]
            IN CASE key = "ED25519-V3" -> Ok(Some(Ed25519V3(v)))
                 [] key = "RSA1024" -> Ok(Some(Rsa1024(v)))
                 [] OTHER -> Ok(None)

parse_private_key(value) ==
    LET split == str_split(value, ":")
    IN IF Len(split) < 1 THEN Err(ParseFailedResponse(ParseError("PrivateKey field was empty")))
       ELSE IF Len(split) < 2 THEN Err(ParseFailedResponse(ParseError("Failed to parse private key")))
       ELSE LET key == split[1]
                v == split[2]
            IN CASE key = "ED25519-V3" -> Ok(Some(Ed25519V3(v)))
                 [] key = "RSA1024" -> Ok(Some(Rsa1024(v)))
                 [] OTHER -> Err(ParseFailedResponse(ParseError(
                        "Server returned unrecognised private key type '" \o key \o "'")))

RECURSIVE parse_data_lines_strict(_, _, _)
parse_data_lines_strict(lines, service_id, private_key) ==
    IF Len(lines) = 0 THEN Ok(<<service_id, private_key>>)
    ELSE LET kv == key_value(Head(lines).value)
         IN IF ~kv.ok THEN Err(ParseFailedResponse(kv.err))
            ELSE LET key == kv.val[1]
                     value == kv.val[2]
                 IN CASE key = "ServiceID" ->
                            parse_data_lines_strict(Tail(lines), Some(value), private_key)
                      [] key = "PrivateKey" ->
                            LET pk == parse_private_key(value)
                            IN IF ~pk.ok THEN pk
                               ELSE parse_data_lines_strict(Tail(lines), service_id, pk.val)
                      [] OTHER ->
                            Err(ParseFailedResponse(ParseError("Unexpected key '" \o key \o "'")))

RECURSIVE parse_data_lines_first_wins(_, _, _)
parse_data_lines_first_wins(lines, service_id, private_key) ==
    IF Len(lines) = 0 THEN Ok(<<service_id, private_key>>)
    ELSE LET kv == key_value(Head(lines).value)
         IN IF ~kv.ok THEN Err(ParseFailedResponse(kv.err))
            ELSE LET key == kv.val[1]
                     value == kv.val[2]
                 IN CASE key = "ServiceID" ->
                            parse_data_lines_first_wins(Tail(lines),
                                IF service_id = None THEN Some(value) ELSE service_id,
                                private_key)
                      [] key = "PrivateKey" ->
                            LET pk == parse_private_key(value)
                            IN IF ~pk.ok THEN pk
                               ELSE parse_data_lines_first_wins(Tail(lines), service_id,
                                        IF private_key = None THEN pk.val ELSE private_key)
                      [] OTHER ->
                            parse_data_lines_first_wins(Tail(lines), service_id, private_key)

RECURSIVE parse_data_lines(_, _, _)
parse_data_lines(lines, service_id, private_key) ==
    IF Len(lines) = 0 THEN Ok(<<service_id, private_key>>)
    ELSE LET kv == key_value(Head(lines).value)
         IN IF ~kv.ok THEN Err(ParseFailedResponse(kv.err))
            ELSE LET key == kv.val[1]
                     value == kv.val[2]
                 IN CASE key = "ServiceID" ->
                            parse_data_lines(Tail(lines), Some(value), private_key)
                      [] key = "PrivateKey" ->
                            LET pk == parse_private_key(value)
                            IN IF ~pk.ok THEN pk
                               ELSE parse_data_lines(Tail(lines), service_id, pk.val)
                      [] OTHER ->
                            parse_data_lines(Tail(lines), service_id, private_key)

parse_responses_data_first(self, resp) ==
    IF Len(resp) = 0 THEN Err(UnexpectedEof)
    ELSE LET last_response == resp[Len(resp)]
             rest == SubSeq(resp, 1, Len(resp) - 1)
             fields == parse_data_lines(rest, None, None)
         IN IF ~fields.ok THEN fields
            ELSE IF ResponseLine_err(last_response) # None
            THEN Err(TorCommandFailed(ResponseLine_err(last_response)[1]))
            ELSE IF fields.val[1] = None THEN Err(AddOnionNoServiceId)
            ELSE Ok(AddOnionResponse(fields.val[1][1], fields.val[2]))

parse_responses_eof_after_pop(self, resp) ==
    IF Len(resp) <= 1 THEN Err(UnexpectedEof)
    ELSE LET last_response == resp[Len(resp)]
             rest == SubSeq(resp, 1, Len(resp) - 1)
         IN IF ResponseLine_err(last_response) # None
            THEN Err(TorCommandFailed(ResponseLine_err(last_response)[1]))
            ELSE LET fields == parse_data_lines(rest, None, None)
                 IN IF ~fields.ok THEN fields
                    ELSE IF fields.val[1] = None THEN Err(AddOnionNoServiceId)
                    ELSE Ok(AddOnionResponse(fields.val[1][1], fields.val[2]))

parse_responses_default_service_id(self, resp) ==
    IF Len(resp) = 0 THEN Err(UnexpectedEof)
    ELSE LET last_response == resp[Len(resp)]
             rest == SubSeq(resp, 1, Len(resp) - 1)
         IN IF ResponseLine_err(last_response) # None
            THEN Err(TorCommandFailed(ResponseLine_err(last_response)[1]))
            ELSE LET fields == parse_data_lines(rest, None, None)
                 IN IF ~fields.ok THEN fields
                    ELSE IF fields.val[1] = None THEN Ok(AddOnionResponse("", fields.val[2]))
                    ELSE Ok(AddOnionResponse(fields.val[1][1], fields.val[2]))

parse_responses(self, resp) ==
    IF Len(resp) = 0 THEN Err(UnexpectedEof)
    ELSE LET last_response == resp[Len(resp)]
             rest == SubSeq(resp, 1, Len(resp) - 1)
         IN IF ResponseLine_err(last_response) # None
            THEN Err(TorCommandFailed(ResponseLine_err(last_response)[1]))
            ELSE LET fields == parse_data_lines(rest, None, None)
                 IN IF ~fields.ok THEN fields
                    ELSE IF fields.val[1] = None THEN Err(AddOnionNoServiceId)
                    ELSE Ok(AddOnionResponse(fields.val[1][1], fields.val[2]))

(***************************************************************************)
(* The response lines the transport may hand over.                         *)
(***************************************************************************)
DataValues ==
    {"ServiceID=abc", "ServiceID=xyz",
     "PrivateKey=ED25519-V3:deadbeef", "PrivateKey=RSA1024:cafe",
     "PrivateKey=ED25519-V3:dead:beef",
     "PrivateKey=UNKNOWN:xyz", "PrivateKey=:xyz",
     "PrivateKey=ED25519-V3:", "PrivateKey=RSA1024",
     "ClientAuth=bob:pw", "Unknown",
     "", "=abc"}

DataLines == {ResponseLine_new(250, v) : v \in DataValues}

StatusLines ==
    {ResponseLine_new(250, "OK"),
     ResponseLine_new(550, "Onion address collision"),
     ResponseLine_new(250, "ServiceID=abc")}

(***************************************************************************)
(* Parsing: any sequence of response lines is parsed for a command.        *)
(***************************************************************************)
InitResponse ==
    /\ cmd = DefaultCommand
    /\ \/ responses = <<>>
       \/ \E n \in 0..MaxDataLines : \E d \in [1..n -> DataLines], s \in StatusLines :
            responses = d \o <<s>>
    /\ line = None
    /\ result = None

ParseResponses ==
    /\ result = None
    /\ result' = Some(parse_responses(cmd, responses))
    /\ UNCHANGED <<cmd, responses, line>>

NextResponse == ParseResponses

SpecResponse == InitResponse /\ [][NextResponse]_vars

(***************************************************************************)
(* The request line as the wire format documents it, and a reader of that  *)
(* format: ADD_ONION <KeyTypeToken>:<KeyBlob> [Flags=<F1>,<F2>,...]        *)
(* [NumStreams=<n>] Port=<vport>[,<addr>:<port>].                          *)
(***************************************************************************)
KeyTypeToken == [New |-> "NEW", Rsa1024 |-> "RSA1024", Ed25519V3 |-> "ED25519-V3"]

AddrText(a) ==
    CASE a = [v6 |-> FALSE, ip |-> "127.0.0.1", port |-> 8080] -> "127.0.0.1:8080"
      [] a = [v6 |-> TRUE, ip |-> "::1", port |-> 443] -> "[::1]:443"

ExpectedLine(c) ==
    "ADD_ONION " \o KeyTypeToken[c.key_type] \o ":" \o c.key_blob.String
    \o (IF c.flags = <<>> THEN "" ELSE " Flags=" \o Join(c.flags, ","))
    \o (IF c.num_streams = None THEN "" ELSE " NumStreams=" \o ToString(c.num_streams[1]))
    \o " Port=" \o ToString(c.port[1])
    \o (IF c.port[2] = None THEN "" ELSE "," \o AddrText(c.port[2][1]))

SameFlags(f, g) ==
    /\ Len(f) = Len(g)
    /\ \A x \in AddOnionFlag :
         Cardinality({i \in 1..Len(f) : f[i] = x}) = Cardinality({i \in 1..Len(g) : g[i] = x})

StartsWith(s, p) == Len(s) >= Len(p) /\ SubSeq(s, 1, Len(p)) = p

DigitVal(ch) ==
    CASE ch = "0" -> 0 [] ch = "1" -> 1 [] ch = "2" -> 2 [] ch = "3" -> 3
      [] ch = "4" -> 4 [] ch = "5" -> 5 [] ch = "6" -> 6 [] ch = "7" -> 7
      [] ch = "8" -> 8 [] ch = "9" -> 9 [] OTHER -> -1

RECURSIVE ParseNatFrom(_, _, _)
ParseNatFrom(s, i, acc) ==
    IF i > Len(s) THEN acc
    ELSE IF DigitVal(CharAt(s, i)) < 0 THEN -1
    ELSE ParseNatFrom(s, i + 1, 10 * acc + DigitVal(CharAt(s, i)))

ParseNat(s) == IF Len(s) = 0 THEN -1 ELSE ParseNatFrom(s, 1, 0)

ParseAddr(a) ==
    IF StartsWith(a, "[")
    THEN LET close == Find(a, "]")
         IN [v6 |-> TRUE, ip |-> SubSeq(a, 2, close - 1),
             port |-> ParseNat(SubSeq(a, close + 2, Len(a)))]
    ELSE LET colon == Find(a, ":")
         IN [v6 |-> FALSE, ip |-> Before(a, colon), port |-> ParseNat(After(a, colon))]

ParseRequest(l) ==
    LET w == str_split(l, " ")
    IN IF Len(w) < 3 \/ w[1] # "ADD_ONION" \/ Find(w[2], ":") = 0 THEN None
       ELSE LET colon == Find(w[2], ":")
                token == Before(w[2], colon)
                hasFlags == StartsWith(w[3], "Flags=")
                iNum == IF hasFlags THEN 4 ELSE 3
                hasNum == iNum <= Len(w) /\ StartsWith(w[iNum], "NumStreams=")
                iPort == IF hasNum THEN iNum + 1 ELSE iNum
                flags == IF hasFlags THEN str_split(After(w[3], 6), ",") ELSE <<>>
            IN IF \/ iPort # Len(w)
                  \/ ~StartsWith(w[iPort], "Port=")
                  \/ \A kt \in KeyType : KeyTypeToken[kt] # token
                  \/ \E i \in 1..Len(flags) : flags[i] \notin AddOnionFlag
               THEN None
               ELSE LET p == After(w[iPort], 5)
                        comma == Find(p, ",")
                    IN Some([key_type |-> CHOOSE kt \in KeyType : KeyTypeToken[kt] = token,
                             key_blob |-> [String |-> After(w[2], colon)],
                             flags |-> flags,
                             port |-> IF comma = 0 THEN <<ParseNat(p), None>>
                                      ELSE <<ParseNat(Before(p, comma)),
                                             Some(ParseAddr(After(p, comma)))>>,
                             num_streams |-> IF hasNum
                                             THEN Some(ParseNat(After(w[iNum], 11)))
                                             ELSE None])

(* C1: to_command_string returns Ok with exactly "ADD_ONION " + key-type   *)
(* token + ":" + key blob, then " Flags=<tokens joined by ','>" iff the    *)
(* flag list is non-empty (in insertion order, so the same flags inserted  *)
(* in another order give another string), then " NumStreams=<n>" iff a     *)
(* stream limit is present, then always " Port=<vport>" followed by        *)
(* ",<addr>" iff a forwarding address is present.                          *)
C1_CommandString ==
    line # None =>
        /\ line[1].ok
        /\ line[1].val = ExpectedLine(cmd)
        /\ cmd = DefaultCommand => line[1].val = "ADD_ONION NEW:this-is-a-key Port=9090"
        /\ \A fl \in FlagLists :
             SameFlags(fl, cmd.flags) /\ fl # cmd.flags =>
                 to_command_string([cmd EXCEPT !.flags = fl]) # line[1]

C1_Witness ==
    /\ line # None
    /\ Len(cmd.flags) = 2
    /\ cmd.flags[1] # cmd.flags[2]
    /\ cmd.num_streams # None
    /\ cmd.port[2] # None

(* C2: reading the line produced by to_command_string against the          *)
(* documented request grammar recovers exactly the field values of the     *)
(* command, so two commands with different field values never serialise to *)
(* the same line.                                                          *)
C2_RoundTrip ==
    line # None =>
        /\ ParseRequest(line[1].val) = Some(cmd)
        /\ \A c \in AddOnion : to_command_string(c) = line[1] => c = cmd

(***************************************************************************)
(* The response as the line grammar documents it: the status line, the     *)
(* data lines before it, the key and value of a data line, and the         *)
(* algorithm tag and payload of a PrivateKey value.                        *)
(***************************************************************************)
StatusLine(r) == r[Len(r)]

StatusOk(r) == Len(r) > 0 /\ ResponseLine_err(StatusLine(r)) = None

DataIdx(r) == 1..(Len(r) - 1)

WellFormed(l) == key_value(l.value).ok

IsKey(l, k) == WellFormed(l) /\ key_value(l.value).val[1] = k

ValueOf(l) == key_value(l.value).val[2]

UnknownKey(l) == WellFormed(l) /\ ~IsKey(l, "ServiceID") /\ ~IsKey(l, "PrivateKey")

KnownTags == {"ED25519-V3", "RSA1024"}

HasColon(v) == Find(v, ":") # 0

TagOf(v) == Before(v, Find(v, ":"))

PayloadOf(v) == After(v, Find(v, ":"))

AlgOfTag(t) == IF t = "ED25519-V3" THEN "Ed25519V3" ELSE "Rsa1024"

ValidPrivateKey(l) ==
    /\ IsKey(l, "PrivateKey")
    /\ HasColon(ValueOf(l))
    /\ TagOf(ValueOf(l)) \in KnownTags
    /\ PayloadOf(ValueOf(l)) # ""

CleanLine(l) == WellFormed(l) /\ (IsKey(l, "PrivateKey") => ValidPrivateKey(l))

UnrecognisedTag(l) ==
    /\ IsKey(l, "PrivateKey")
    /\ HasColon(ValueOf(l))
    /\ TagOf(ValueOf(l)) \notin KnownTags

Accepted(l) ==
    /\ WellFormed(l)
    /\ IsKey(l, "PrivateKey") => HasColon(ValueOf(l)) /\ TagOf(ValueOf(l)) \in KnownTags

RECURSIVE Contains(_, _)
Contains(s, sub) ==
    IF Len(s) < Len(sub) THEN FALSE
    ELSE IF StartsWith(s, sub) THEN TRUE
    ELSE Contains(SubSeq(s, 2, Len(s)), sub)

IsParseError(r) == ~r.ok /\ r.err.kind = "ParseFailedResponse"

LastIndex(r, k) ==
    IF \E i \in DataIdx(r) : IsKey(r[i], k)
    THEN CHOOSE i \in DataIdx(r) :
            IsKey(r[i], k) /\ \A j \in DataIdx(r) : IsKey(r[j], k) => j <= i
    ELSE 0

InsertAt(r, i, l) == SubSeq(r, 1, i - 1) \o <<l>> \o SubSeq(r, i, Len(r))

RemoveAt(r, i) == SubSeq(r, 1, i - 1) \o SubSeq(r, i + 1, Len(r))

RECURSIVE KeepFrom(_, _, _)
KeepFrom(r, keep, i) ==
    IF i > Len(r) THEN <<>>
    ELSE (IF i \in keep THEN <<r[i]>> ELSE <<>>) \o KeepFrom(r, keep, i + 1)

KeepLast(r) ==
    KeepFrom(r, {i \in 1..Len(r) :
                    \/ i = Len(r)
                    \/ UnknownKey(r[i])
                    \/ i = LastIndex(r, "ServiceID")
                    \/ i = LastIndex(r, "PrivateKey")}, 1)

ServiceIdLast(r) ==
    KeepFrom(r, {i \in DataIdx(r) : ~IsKey(r[i], "ServiceID")}, 1)
    \o KeepFrom(r, {i \in DataIdx(r) : IsKey(r[i], "ServiceID")}, 1)
    \o <<StatusLine(r)>>

ServiceIdFirst(r) ==
    KeepFrom(r, {i \in DataIdx(r) : IsKey(r[i], "ServiceID")}, 1)
    \o KeepFrom(r, {i \in DataIdx(r) : ~IsKey(r[i], "ServiceID")}, 1)
    \o <<StatusLine(r)>>

UnknownLines == {ResponseLine_new(250, "ClientAuth=bob:pw"), ResponseLine_new(650, "Unknown")}

(* C3: when the status line (the last line) carries an error message,      *)
(* parse_responses fails with TorCommandFailed carrying that message       *)
(* verbatim, whatever the data lines before it contain.                    *)
C3_StatusErrorFirst ==
    result # None /\ Len(responses) > 0 /\ ResponseLine_err(StatusLine(responses)) # None =>
        /\ result[1] = Err(TorCommandFailed(StatusLine(responses).value))
        /\ responses = <<ResponseLine_new(550, "Onion address collision")>> =>
               result[1].err.msg = "Onion address collision"

C3_Witness ==
    /\ result # None
    /\ Len(responses) > 1
    /\ ResponseLine_err(StatusLine(responses)) # None
    /\ \E i \in DataIdx(responses) : ~Accepted(responses[i])
    /\ \A i \in DataIdx(responses) : ~IsKey(responses[i], "ServiceID")

(* C4: parse_responses called with no response line fails with             *)
(* UnexpectedEof, an error distinct from the rejection, missing-service-id *)
(* and parse errors; with one or more lines it never returns               *)
(* UnexpectedEof.                                                          *)
C4_UnexpectedEof ==
    result # None =>
        /\ Len(responses) = 0 => result[1] = Err(UnexpectedEof)
        /\ Len(responses) > 0 =>
              \/ result[1].ok
              \/ result[1].err.kind \in {"TorCommandFailed", "AddOnionNoServiceId",
                                           "ParseFailedResponse"}
        /\ UnexpectedEof.kind \notin {"TorCommandFailed", "AddOnionNoServiceId",
                                       "ParseFailedResponse"}

C4_Witness == result # None /\ Len(responses) = 0 /\ ~result[1].ok

(* C5: when the status line carries no error and every data line parses    *)
(* cleanly but none has the key ServiceID, parse_responses fails with      *)
(* AddOnionNoServiceId (neither a parse error nor success); every          *)
(* successful result carries the value of a ServiceID line of the          *)
(* response.                                                               *)
C5_MissingServiceId ==
    result # None =>
        /\ ( /\ StatusOk(responses)
             /\ \A i \in DataIdx(responses) :
                    CleanLine(responses[i]) /\ ~IsKey(responses[i], "ServiceID") )
           => result[1] = Err(AddOnionNoServiceId)
        /\ result[1].ok =>
              \E i \in DataIdx(responses) :
                  IsKey(responses[i], "ServiceID")
                  /\ result[1].val.service_id = ValueOf(responses[i])
        /\ responses = <<ResponseLine_new(250, "PrivateKey=ED25519-V3:deadbeef"),
                         ResponseLine_new(250, "OK")>>
           => result[1] = Err(AddOnionNoServiceId)

C5_Witness ==
    /\ result # None
    /\ StatusOk(responses)
    /\ \E i \in DataIdx(responses) : ValidPrivateKey(responses[i])
    /\ \A i \in DataIdx(responses) :
           CleanLine(responses[i]) /\ ~IsKey(responses[i], "ServiceID")
    /\ result[1] = Err(AddOnionNoServiceId)

(* C6: with a successful status line, a PrivateKey data line whose value   *)
(* has no colon, an empty algorithm tag or an empty payload makes          *)
(* parse_responses fail with a parse error; a successful result never      *)
(* contains a private key with an empty payload.                           *)
C6_MalformedPrivateKey ==
    result # None /\ StatusOk(responses) =>
        /\ (\E i \in DataIdx(responses) :
                /\ IsKey(responses[i], "PrivateKey")
                /\ \/ ~HasColon(ValueOf(responses[i]))
                   \/ TagOf(ValueOf(responses[i])) = ""
                   \/ PayloadOf(ValueOf(responses[i])) = "")
           => IsParseError(result[1])
        /\ result[1].ok /\ result[1].val.private_key # None =>
               result[1].val.private_key[1].value # ""

(* C7 as stated: with a successful status line, a PrivateKey data line     *)
(* whose algorithm tag is neither ED25519-V3 nor RSA1024 makes             *)
(* parse_responses fail with a parse error that names that tag.            *)
C7_Original ==
    result # None /\ StatusOk(responses) =>
        \A i \in DataIdx(responses) :
            UnrecognisedTag(responses[i]) =>
                /\ IsParseError(result[1])
                /\ Contains(result[1].err.msg, "'" \o TagOf(ValueOf(responses[i])) \o "'")

(* C7 as amended: with a successful status line, a PrivateKey data line    *)
(* whose algorithm tag is neither ED25519-V3 nor RSA1024 makes             *)
(* parse_responses fail with a parse error, wherever the ServiceID lines   *)
(* are; the error names that tag when no earlier data line fails to parse  *)
(* (the first offending line decides the error); a successful result never *)
(* contains a private key of another algorithm than those two.             *)
C7_UnrecognisedTag ==
    result # None /\ StatusOk(responses) =>
        /\ \A i \in DataIdx(responses) :
              UnrecognisedTag(responses[i]) =>
                  /\ IsParseError(result[1])
                  /\ (\A j \in 1..(i - 1) : Accepted(responses[j])) =>
                         Contains(result[1].err.msg,
                                  "'" \o TagOf(ValueOf(responses[i])) \o "'")
        /\ result[1].ok /\ result[1].val.private_key # None =>
               result[1].val.private_key[1].alg \in {"Ed25519V3", "Rsa1024"}
        /\ responses = <<ResponseLine_new(250, "ServiceID=abc"),
                         ResponseLine_new(250, "PrivateKey=UNKNOWN:xyz"),
                         ResponseLine_new(250, "OK")>>
           => IsParseError(result[1]) /\ Contains(result[1].err.msg, "UNKNOWN")

C7_Witness ==
    /\ result # None
    /\ StatusOk(responses)
    /\ Len(responses) = 4
    /\ IsKey(responses[1], "ServiceID")
    /\ UnrecognisedTag(responses[2])
    /\ IsKey(responses[3], "ServiceID")
    /\ IsParseError(result[1])

(* C8: data lines whose key is neither ServiceID nor PrivateKey are        *)
(* ignored: inserting a well-formed line with an unknown key at any        *)
(* position before the status line, or removing one, leaves the outcome of *)
(* parse_responses (the success value or the error) unchanged.             *)
C8_UnknownKeysIgnored ==
    result # None /\ Len(responses) > 0 =>
        /\ \A i \in 1..Len(responses), u \in UnknownLines :
              parse_responses(cmd, InsertAt(responses, i, u)) = result[1]
        /\ \A i \in DataIdx(responses) :
              UnknownKey(responses[i]) =>
                  parse_responses(cmd, RemoveAt(responses, i)) = result[1]

C8_Witness ==
    /\ result # None
    /\ result[1].ok
    /\ result[1].val.private_key # None
    /\ \E i \in DataIdx(responses) : UnknownKey(responses[i])

(* C9: on success parse_responses returns the service identifier and the   *)
(* optional private key exactly as sent: no private key when there is no   *)
(* PrivateKey line, and for a PrivateKey value <Tag>:<Payload> the         *)
(* algorithm <Tag> and everything after the first colon as the payload,    *)
(* further colons included.                                                *)
C9_ValuesAsSent ==
    result # None /\ result[1].ok =>
        /\ result[1].val.service_id = ValueOf(responses[LastIndex(responses, "ServiceID")])
        /\ LastIndex(responses, "PrivateKey") = 0 => result[1].val.private_key = None
        /\ LastIndex(responses, "PrivateKey") # 0 =>
              LET v == ValueOf(responses[LastIndex(responses, "PrivateKey")])
              IN result[1].val.private_key =
                     Some([alg |-> AlgOfTag(TagOf(v)), value |-> PayloadOf(v)])

(* C10: with a successful status line and several ServiceID lines or       *)
(* several valid PrivateKey lines, parse_responses succeeds and the result *)
(* is decided by the last occurrence of each key in line order: earlier    *)
(* occurrences have no influence, and the order of ServiceID lines         *)
(* relative to PrivateKey lines does not matter.                           *)
C10_LastOccurrenceWins ==
    ( /\ result # None
      /\ StatusOk(responses)
      /\ \A i \in DataIdx(responses) : CleanLine(responses[i])
      /\ LastIndex(responses, "ServiceID") # 0 )
    => /\ result[1].ok
       /\ result[1].val.service_id = ValueOf(responses[LastIndex(responses, "ServiceID")])
       /\ LastIndex(responses, "PrivateKey") = 0 => result[1].val.private_key = None
       /\ LastIndex(responses, "PrivateKey") # 0 =>
             /\ result[1].val.private_key # None
             /\ result[1].val.private_key[1].alg =
                    AlgOfTag(TagOf(ValueOf(responses[LastIndex(responses, "PrivateKey")])))
             /\ ~HasColon(PayloadOf(ValueOf(responses[LastIndex(responses, "PrivateKey")]))) =>
                    result[1].val.private_key[1].value =
                        PayloadOf(ValueOf(responses[LastIndex(responses, "PrivateKey")]))
       /\ parse_responses(cmd, KeepLast(responses)) = result[1]
       /\ parse_responses(cmd, ServiceIdLast(responses)) = result[1]
       /\ parse_responses(cmd, ServiceIdFirst(responses)) = result[1]

C10_Witness ==
    /\ result # None
    /\ result[1].ok
    /\ Len(responses) = 4
    /\ IsKey(responses[1], "ServiceID")
    /\ ValidPrivateKey(responses[2])
    /\ IsKey(responses[3], "ServiceID")
    /\ ValueOf(responses[1]) # ValueOf(responses[3])
    /\ result[1].val.service_id = ValueOf(responses[3])

====
